---- MODULE Spec2Model ----
(***************************************************************************)
(* A model of the durable workflow engine: the WorkflowRunner (run,        *)
(* cancel), the WorkflowStep executor (do, sleep, getOrCreateStep) and the *)
(* four tables of the Prisma schema they write.  Every await of the code   *)
(* is a position of the executor (pc); the store changes only in the       *)
(* actions that model a Prisma call, and a $transaction is one action.     *)
(***************************************************************************)
EXTENDS Integers, Sequences, FiniteSets, TLC

VARIABLES
    workflowInstances,      \* table workflow_instances: sequence of rows, id = index
    workflowSteps,          \* table workflow_steps
    workflowStepInstances,  \* table workflow_step_instances
    workflowSleepInstances, \* table workflow_sleep_instances
    now,                    \* the wall clock, in milliseconds
    pc,                     \* per executor: the await it is suspended at
    step,                   \* per executor: the WorkflowStep object
    frame,                  \* per executor: the locals of the current do / sleep call
    runner,                 \* per executor: the locals of WorkflowRunner.run
    calls                   \* how many do / sleep calls the bodies have made

vars == <<workflowInstances, workflowSteps, workflowStepInstances,
          workflowSleepInstances, now, pc, step, frame, runner, calls>>

store == <<workflowInstances, workflowSteps, workflowStepInstances,
           workflowSleepInstances>>

----------------------------------------------------------------------------
(* Bounds of the model. *)

MaxWorkflows == 1
MaxCalls == 2
MaxTime == 3

(* Inputs the user body draws from. *)

Execs == {1, 2}
Names == {"a", "b"}
Vals == {"x", "y"}
Null == "null"
Undefined == "undefined"

----------------------------------------------------------------------------
(* Error messages are sequences of words, so that building a message from  *)
(* parts is a concatenation and two messages are equal only when they read *)
(* the same.  The empty sequence stands for null (no error, no reason).    *)

NoError == << >>
Boom == <<"boom">>
FnMessages == {Boom}
BodyMessages == {<<"body", "failed">>}

\* a duration string "<digits><whitespace><unit>"; value = -1: no leading digits
Duration(value, space, unit) == [value |-> value, space |-> space, unit |-> unit]
EmptyString == Duration(-1, 0, "")
DurationText(d) == <<ToString(d.value), d.unit>>

MissingExecutorMsg == <<"No executor function provided for step">>
TimeoutMsg(name, timeout) == <<"Step", name, "timed out after">> \o DurationText(timeout)
StepFailedMsg(name, msg) == <<"Step", name, "failed:">> \o msg
InvalidDurationMsg(d) == <<"Invalid duration format:">> \o DurationText(d)
UnknownUnitMsg(unit) == <<"Unknown time unit:", unit>>
DurationOverflowMsg(name, ms, scale) ==
    <<"step.sleep", name, "duration", ToString(ms), "x", ToString(scale),
      "exceeds maximum safe integer">>

----------------------------------------------------------------------------
(* utils/time.ts *)

units == [millisecond |-> 1, milliseconds |-> 1,
          second |-> 1000, seconds |-> 1000,
          minute |-> 60 * 1000, minutes |-> 60 * 1000,
          hour |-> 60 * 60 * 1000, hours |-> 60 * 60 * 1000,
          day |-> 24 * 60 * 60 * 1000, days |-> 24 * 60 * 60 * 1000]

\* String.prototype.toLowerCase on the unit spellings the inputs use
toLowerCase(unit) ==
    CASE unit = "Milliseconds" -> "milliseconds"
      [] unit = "MILLISECOND" -> "millisecond"
      [] OTHER -> unit

\* duration.match(/^(\d+)\s+(.+)$/)
RegexMatches(d) == d.value >= 0 /\ d.space >= 1 /\ d.unit # ""

\* whether value * multiplier is a number the model's integers hold
Fits(value, multiplier) == value <= 2147483647 \div multiplier

\* parseDuration: [ok |-> TRUE, ms |-> n] or [ok |-> FALSE, error |-> message].
\* The number returned is ms * scale: scale is 1 and ms the product of line 29
\* whenever the model's integers hold it (every duration that is waited
\* for); a larger product is kept as its two factors
parseDuration(d) ==
    IF ~RegexMatches(d)
    THEN [ok |-> FALSE, ms |-> 0, scale |-> 1, error |-> InvalidDurationMsg(d)]
    ELSE IF toLowerCase(d.unit) \notin DOMAIN units
         THEN [ok |-> FALSE, ms |-> 0, scale |-> 1,
               error |-> UnknownUnitMsg(toLowerCase(d.unit))]
         ELSE IF Fits(d.value, units[toLowerCase(d.unit)])
              THEN [ok |-> TRUE, ms |-> d.value * units[toLowerCase(d.unit)],
                    scale |-> 1, error |-> NoError]
              ELSE [ok |-> TRUE, ms |-> d.value,
                    scale |-> units[toLowerCase(d.unit)], error |-> NoError]

\* Number.MAX_SAFE_INTEGER is 2^53 - 1
MaxSafeIntegerBits == 53

\* 2^k = q * m + r for k >= 30, by doubling from 2^30; a q beyond the model's
\* integers is held as the largest of them
RECURSIVE Pow2Div(_, _)
Pow2Div(k, m) ==
    IF k = 30
    THEN [q |-> 1073741824 \div m, r |-> 1073741824 % m]
    ELSE LET p == Pow2Div(k - 1, m)
             bit == IF 2 * p.r >= m THEN 1 ELSE 0
         IN  [q |-> IF p.q > 1073741823 THEN 2147483647 ELSE 2 * p.q + bit,
              r |-> 2 * p.r - bit * m]

\* the test lost: no duration is refused
exceedsMaxSafeIntegerNever(ms, scale) == FALSE

\* step.ts line 399: ms > Number.MAX_SAFE_INTEGER, for the number ms * scale
exceedsMaxSafeInteger(ms, scale) ==
    LET p == Pow2Div(MaxSafeIntegerBits, scale)
    IN  /\ scale > 1
        /\ p.q < 2147483647
        /\ IF p.r = 0 THEN ms >= p.q ELSE ms > p.q

----------------------------------------------------------------------------
(* types.ts: WorkflowStepOptions.  hasRetries = FALSE is an options object *)
(* without the retries field; timeout = EmptyString is one without timeout *)

Options(hasRetries, limit, delay, backoff, timeout) ==
    [hasRetries |-> hasRetries, limit |-> limit, delay |-> delay,
     backoff |-> backoff, timeout |-> timeout]

NoOptions == Options(FALSE, 0, EmptyString, "fixed", EmptyString)

\* a string is truthy unless it is empty
Truthy(d) == d # EmptyString

\* options.retries?.limit ?? 0
retryLimit(o) == IF o.hasRetries THEN o.limit ELSE 0

\* options.retries?.delay
retryDelayOption(o) == IF o.hasRetries THEN o.delay ELSE EmptyString

\* Math.pow(2, n) for n >= 0
RECURSIVE Pow2(_)
Pow2(n) == IF n <= 0 THEN 1 ELSE 2 * Pow2(n - 1)

\* the exponent off by one: 2^k instead of 2^(k-1)
backoffFactorOffByOne(o, retryCount) ==
    IF o.backoff = "exponential" THEN Pow2(retryCount) ELSE 1

\* line 320
backoffFactor(o, retryCount) ==
    IF o.backoff = "exponential" THEN Pow2(retryCount - 1) ELSE 1

\* line 321
retryDelay(o, retryCount) ==
    parseDuration(o.delay).ms * backoffFactor(o, retryCount)

----------------------------------------------------------------------------
(* prisma/schema.prisma: the rows.  NullTime is a null DateTime.           *)

NullTime == 0 - 1

WorkflowRow(status) ==
    [status |-> status, output |-> Null, completedAt |-> NullTime,
     failedReason |-> NoError]

StepRow(workflowInstanceId, name) ==
    [workflowInstanceId |-> workflowInstanceId, name |-> name]

StepInstanceRow(stepId) ==
    [stepId |-> stepId, status |-> "RUNNING", output |-> Null, retries |-> 0,
     completedAt |-> NullTime, failedReason |-> NoError]

SleepRow(workflowInstanceId, name, duration, startedAt) ==
    [workflowInstanceId |-> workflowInstanceId, name |-> name,
     duration |-> duration, startedAt |-> startedAt, completedAt |-> NullTime]

Ids(table) == 1 .. Len(table)

\* workflowSteps.findUnique({where: {workflowInstanceId_name}})
findStep(w, name) ==
    {s \in Ids(workflowSteps) :
        workflowSteps[s].workflowInstanceId = w /\ workflowSteps[s].name = name}

\* the query with the status filter lost: nothing is ever found completed
findCompletedInstanceNone(stepId) == {}

\* workflowStepInstances.findFirst({where: {stepId, status: {in: [COMPLETED]}}})
findCompletedInstance(stepId) ==
    {i \in Ids(workflowStepInstances) :
        /\ workflowStepInstances[i].stepId = stepId
        /\ workflowStepInstances[i].status \in {"COMPLETED"}}

\* workflowStepInstances.findFirst({where: {stepId, status: {notIn: [COMPLETED]}}})
findExistingInstance(stepId) ==
    {i \in Ids(workflowStepInstances) :
        /\ workflowStepInstances[i].stepId = stepId
        /\ workflowStepInstances[i].status \notin {"COMPLETED"}}

\* workflowSleepInstances.findUnique({where: {workflowInstanceId_name}})
findSleepInstance(w, name) ==
    {s \in Ids(workflowSleepInstances) :
        /\ workflowSleepInstances[s].workflowInstanceId = w
        /\ workflowSleepInstances[s].name = name}

----------------------------------------------------------------------------
(* The objects of one executor.                                            *)

\* the promise returned by one call of the step function
NoFn == [outcome |-> "none", value |-> Null, error |-> NoError, sync |-> FALSE,
         startedAt |-> NullTime, settleAt |-> NullTime]

\* new WorkflowStep(workflowInstanceId, prisma); doReturned is history the
\* code does not keep: what the last do call of each name returned on this
\* object. orphans are the promises of fn that lost their race and are
\* awaited by nothing (each with the StepInstance of its attempt, the number
\* of its call and of its attempt in the call), and settledOrphans those of
\* them that have settled since
NewWorkflowStep(w) ==
    [workflowInstanceId |-> w,
     stepState |-> [n \in Names |-> Undefined],
     dbStepMap |-> [n \in Names |-> 0],
     doReturned |-> [n \in Names |-> Undefined],
     orphans |-> {},
     settledOrphans |-> {}]

\* getStateFromStep, lines 506-509
getStateFromStep(e, stepName) == step[e].stepState[stepName]

\* the locals of a do or sleep call; the fields from fnCalls on are history
\* the code does not keep (what the call did, for the properties below):
\* backoffFrom is when the running wait (a backoff, a sleep) began, lastWait
\* how long the last one took, waited the sum of the waits of the call,
\* adopted whether the call took over a row it found, adoptedRetries the
\* retries that row had then, entrySlept whether the sleep of the call's
\* name was completed when the call began, and duration the argument of a
\* sleep call
NoFrame ==
    [op |-> "none", name |-> "", options |-> NoOptions, hasFn |-> FALSE,
     stepId |-> 0, instance |-> 0, retryCount |-> 0, lastError |-> NoError,
     result |-> Undefined, timeoutAt |-> NullTime, timedOut |-> FALSE,
     fn |-> NoFn, wakeAt |-> NullTime, fnTime |-> NullTime, ms |-> 0,
     outcome |-> "none", error |-> NoError,
     fnCalls |-> 0, entryOutputs |-> {}, memoized |-> FALSE,
     exhausted |-> FALSE, retryingWrites |-> 0, lostRace |-> NoFn,
     backoffFrom |-> NullTime, lastWait |-> 0, waited |-> 0, adopted |-> FALSE,
     adoptedRetries |-> 0, entrySlept |-> FALSE,
     duration |-> EmptyString]

\* the locals of WorkflowRunner.run; mode "bare" is a WorkflowStep built on an
\* existing workflow id outside run (a resumed workflow)
NoRunner ==
    [mode |-> "none", workflowId |-> 0, value |-> Undefined,
     error |-> NoError, result |-> "none", exhausted |-> FALSE]

Init ==
    /\ workflowInstances = << >>
    /\ workflowSteps = << >>
    /\ workflowStepInstances = << >>
    /\ workflowSleepInstances = << >>
    /\ now = 0
    /\ pc = [e \in Execs |-> "idle"]
    /\ step = [e \in Execs |-> NewWorkflowStep(0)]
    /\ frame = [e \in Execs |-> NoFrame]
    /\ runner = [e \in Execs |-> NoRunner]
    /\ calls = 0

----------------------------------------------------------------------------
(* WorkflowRunner (workflow/runner.ts)                                     *)

\* run, lines 18-39: run takes the params and no workflow id; every call
\* creates a row, PENDING, and builds the step handler on the new id (limit
\* bounds the rows of the model)
RunCreateWithin(e, limit) ==
    /\ pc[e] \in {"idle", "returned"}
    /\ Len(workflowInstances) < limit
    /\ workflowInstances' = Append(workflowInstances, WorkflowRow("PENDING"))
    /\ runner' = [runner EXCEPT ![e] =
                    [NoRunner EXCEPT !.mode = "run",
                                     !.workflowId = Len(workflowInstances) + 1]]
    /\ step' = [step EXCEPT ![e] = NewWorkflowStep(Len(workflowInstances) + 1)]
    /\ frame' = [frame EXCEPT ![e] = NoFrame]
    /\ pc' = [pc EXCEPT ![e] = "run_start"]
    /\ UNCHANGED <<workflowSteps, workflowStepInstances, workflowSleepInstances,
                   now, calls>>

RunCreate(e) == RunCreateWithin(e, MaxWorkflows)

\* run called again by a caller that repeats a workflow
RunRepeat(e) == RunCreateWithin(e, MaxWorkflows + 1)

\* run, lines 42-48: the row goes RUNNING and the body is entered
RunSetRunning(e) ==
    /\ pc[e] = "run_start"
    /\ workflowInstances' =
         [workflowInstances EXCEPT ![runner[e].workflowId].status = "RUNNING"]
    /\ pc' = [pc EXCEPT ![e] = "body"]
    /\ UNCHANGED <<workflowSteps, workflowStepInstances, workflowSleepInstances,
                   now, step, frame, runner, calls>>

\* run, lines 51-58: the body has returned; the COMPLETED update
RunComplete(e) ==
    /\ pc[e] = "run_complete"
    /\ workflowInstances' =
         [workflowInstances EXCEPT ![runner[e].workflowId] =
            [@ EXCEPT !.status = "COMPLETED", !.completedAt = now,
                      !.output = runner[e].value]]
    /\ runner' = [runner EXCEPT ![e].result = "ok"]
    /\ pc' = [pc EXCEPT ![e] = "run_return"]
    /\ UNCHANGED <<workflowSteps, workflowStepInstances, workflowSleepInstances,
                   now, step, frame, calls>>

\* run, lines 61-73: the catch path (the row exists: workflowId is set)
RunCatch(e) ==
    /\ pc[e] = "run_catch"
    /\ workflowInstances' =
         [workflowInstances EXCEPT ![runner[e].workflowId] =
            [@ EXCEPT !.status = "FAILED", !.failedReason = runner[e].error]]
    /\ runner' = [runner EXCEPT ![e].result = "err"]
    /\ pc' = [pc EXCEPT ![e] = "run_return"]
    /\ UNCHANGED <<workflowSteps, workflowStepInstances, workflowSleepInstances,
                   now, step, frame, calls>>

\* run, lines 60 and 75: the update has been awaited; run returns Ok(id) or
\* Err(error) to its caller
RunReturn(e) ==
    /\ pc[e] = "run_return"
    /\ pc' = [pc EXCEPT ![e] = "returned"]
    /\ UNCHANGED <<store, now, step, frame, runner, calls>>

\* cancel accepted only while the workflow is not in a terminal status
CancelUnlessTerminal(w) ==
    /\ w \in Ids(workflowInstances)
    /\ workflowInstances[w].status \notin {"COMPLETED", "FAILED", "CANCELED"}
    /\ workflowInstances' = [workflowInstances EXCEPT ![w].status = "CANCELED"]
    /\ UNCHANGED <<workflowSteps, workflowStepInstances, workflowSleepInstances,
                   now, pc, step, frame, runner, calls>>

\* cancel, lines 79-84
Cancel(w) ==
    /\ w \in Ids(workflowInstances)
    /\ workflowInstances' = [workflowInstances EXCEPT ![w].status = "CANCELED"]
    /\ UNCHANGED <<workflowSteps, workflowStepInstances, workflowSleepInstances,
                   now, pc, step, frame, runner, calls>>

----------------------------------------------------------------------------
(* The user body: any sequence of do / sleep calls (MaxCalls in all, over  *)
(* every run and resumption), which then returns a value or throws; an     *)
(* error a call raises is caught by the body (try / catch) or propagates.  *)

\* the outputs of the COMPLETED instances of step (w, name) when a call begins
EntryOutputs(w, name) ==
    {workflowStepInstances[i].output :
        i \in {j \in Ids(workflowStepInstances) :
                  /\ workflowStepInstances[j].status = "COMPLETED"
                  /\ workflowStepInstances[j].stepId \in Ids(workflowSteps)
                  /\ workflowSteps[workflowStepInstances[j].stepId] = StepRow(w, name)}}

\* leaving the body: back in run (lines 48-50 or the catch), or, for a bare
\* executor, at the caller
AfterBody(e, normal) ==
    IF runner[e].mode = "run"
    THEN (IF normal THEN "run_complete" ELSE "run_catch")
    ELSE "returned"

BodyReturn(e, v) ==
    /\ pc[e] = "body"
    /\ runner' = [runner EXCEPT ![e].value = v,
                    ![e].result = IF runner[e].mode = "run" THEN @ ELSE "ok"]
    /\ pc' = [pc EXCEPT ![e] = AfterBody(e, TRUE)]
    /\ UNCHANGED <<store, now, step, frame, calls>>

BodyThrow(e, msg) ==
    /\ pc[e] = "body"
    /\ runner' = [runner EXCEPT ![e].error = msg,
                    ![e].result = IF runner[e].mode = "run" THEN @ ELSE "err"]
    /\ pc' = [pc EXCEPT ![e] = AfterBody(e, FALSE)]
    /\ UNCHANGED <<store, now, step, frame, calls>>

\* the body catches the error of the call and goes on
BodyCatch(e) ==
    /\ pc[e] = "raised"
    /\ pc' = [pc EXCEPT ![e] = "body"]
    /\ UNCHANGED <<store, now, step, frame, runner, calls>>

\* the body lets the error of the call propagate
BodyPropagate(e) ==
    /\ pc[e] = "raised"
    /\ runner' = [runner EXCEPT ![e].error = frame[e].error,
                    ![e].result = IF runner[e].mode = "run" THEN @ ELSE "err"]
    /\ pc' = [pc EXCEPT ![e] = AfterBody(e, FALSE)]
    /\ UNCHANGED <<store, now, step, frame, calls>>

----------------------------------------------------------------------------
(* WorkflowStep.do (workflow/step.ts, lines 237-392)                       *)

\* a throw out of the call; the deadline timer of the call is dropped with
\* its frame (once the call has ended the timer has no effect)
Raised(f, err) ==
    [f EXCEPT !.outcome = "raised", !.error = err, !.fn = NoFn,
              !.timeoutAt = NullTime, !.wakeAt = NullTime, !.timedOut = FALSE,
              !.lastError = NoError, !.instance = 0, !.stepId = 0]

\* a return out of the call: its locals are gone
Returned(f, value) ==
    [f EXCEPT !.outcome = "returned", !.result = value, !.fn = NoFn,
              !.timeoutAt = NullTime, !.wakeAt = NullTime, !.timedOut = FALSE,
              !.lastError = NoError, !.retryCount = 0, !.instance = 0,
              !.stepId = 0]

\* lines 242-249: the call begins; a missing function throws at once
BodyCallDo(e, name, o, hasFn) ==
    /\ pc[e] = "body"
    /\ calls < MaxCalls
    /\ calls' = calls + 1
    /\ LET f == [NoFrame EXCEPT !.op = "do", !.name = name, !.options = o,
                                !.hasFn = hasFn, !.outcome = "running",
                                !.entryOutputs =
                                   EntryOutputs(step[e].workflowInstanceId, name)]
       IN  IF hasFn
           THEN /\ frame' = [frame EXCEPT ![e] = f]
                /\ pc' = [pc EXCEPT ![e] = "do_getOrCreateStep"]
           ELSE /\ frame' = [frame EXCEPT ![e] = Raised(f, MissingExecutorMsg)]
                /\ pc' = [pc EXCEPT ![e] = "raised"]
    /\ UNCHANGED <<store, now, step, runner>>

\* getOrCreateStep, lines 467-482 and 494-503: the cache, then findUnique
GetOrCreateStepFind(e) ==
    /\ pc[e] = "do_getOrCreateStep"
    /\ LET name == frame[e].name
           found == findStep(step[e].workflowInstanceId, name)
       IN  IF step[e].dbStepMap[name] # 0
           THEN /\ frame' = [frame EXCEPT ![e].stepId = step[e].dbStepMap[name]]
                /\ pc' = [pc EXCEPT ![e] = "do_findCompleted"]
                /\ step' = step
           ELSE IF found = {}
           THEN /\ pc' = [pc EXCEPT ![e] = "do_createStep"]
                /\ UNCHANGED <<frame, step>>
           ELSE \E s \in found :
                /\ step' = [step EXCEPT ![e].dbStepMap[name] = s]
                /\ frame' = [frame EXCEPT ![e].stepId = s]
                /\ pc' = [pc EXCEPT ![e] = "do_findCompleted"]
    /\ UNCHANGED <<store, now, runner, calls>>

UniqueConstraintMsg == <<"Unique constraint failed">>

\* the table without its unique index: create always inserts
GetOrCreateStepCreateNoIndex(e) ==
    /\ pc[e] = "do_createStep"
    /\ workflowSteps' =
         Append(workflowSteps, StepRow(step[e].workflowInstanceId, frame[e].name))
    /\ step' = [step EXCEPT ![e].dbStepMap[frame[e].name] = Len(workflowSteps) + 1]
    /\ frame' = [frame EXCEPT ![e].stepId = Len(workflowSteps) + 1]
    /\ pc' = [pc EXCEPT ![e] = "do_findCompleted"]
    /\ UNCHANGED <<workflowInstances, workflowStepInstances, workflowSleepInstances,
                   now, runner, calls>>

\* getOrCreateStep, lines 484-493 and 502-503: workflowSteps.create, which the
\* unique index on (workflowInstanceId, name) refuses for a second row
GetOrCreateStepCreate(e) ==
    /\ pc[e] = "do_createStep"
    /\ LET name == frame[e].name
           w == step[e].workflowInstanceId
       IN  IF findStep(w, name) # {}
           THEN /\ frame' = [frame EXCEPT ![e] = Raised(@, UniqueConstraintMsg)]
                /\ pc' = [pc EXCEPT ![e] = "raised"]
                /\ UNCHANGED <<workflowSteps, step>>
           ELSE /\ workflowSteps' = Append(workflowSteps, StepRow(w, name))
                /\ step' = [step EXCEPT ![e].dbStepMap[name] = Len(workflowSteps) + 1]
                /\ frame' = [frame EXCEPT ![e].stepId = Len(workflowSteps) + 1]
                /\ pc' = [pc EXCEPT ![e] = "do_findCompleted"]
    /\ UNCHANGED <<workflowInstances, workflowStepInstances, workflowSleepInstances,
                   now, runner, calls>>

\* the lookup of a COMPLETED instance skipped
DoFindCompletedSkipped(e) ==
    /\ pc[e] = "do_findCompleted"
    /\ pc' = [pc EXCEPT ![e] = "do_findExisting"]
    /\ UNCHANGED <<store, now, step, frame, runner, calls>>

\* lines 254-266: a COMPLETED instance is returned without running the function
DoFindCompleted(e) ==
    /\ pc[e] = "do_findCompleted"
    /\ LET found == findCompletedInstance(frame[e].stepId)
       IN  IF found # {}
           THEN \E i \in found :
                /\ frame' = [frame EXCEPT ![e] =
                                [Returned(@, workflowStepInstances[i].output)
                                   EXCEPT !.memoized = TRUE]]
                /\ step' = [step EXCEPT ![e].doReturned[frame[e].name] =
                                            workflowStepInstances[i].output]
                /\ pc' = [pc EXCEPT ![e] = "body"]
           ELSE /\ pc' = [pc EXCEPT ![e] = "do_findExisting"]
                /\ UNCHANGED <<frame, step>>
    /\ UNCHANGED <<store, now, runner, calls>>

\* lines 298-307: new Promise(...) runs its callback at once; a timeout that
\* does not parse throws inside it, which rejects the promise
timeoutReason(name, o) ==
    IF parseDuration(o.timeout).ok
    THEN TimeoutMsg(name, o.timeout)
    ELSE parseDuration(o.timeout).error

\* the promise of a call without a timeout: it never settles
WithTimeoutPromiseUnset(f, t) == f

WithTimeoutPromise(f, t) ==
    IF ~Truthy(f.options.timeout)
    THEN f
    ELSE IF parseDuration(f.options.timeout).ok
         THEN [f EXCEPT !.timeoutAt = t + parseDuration(f.options.timeout).ms]
         ELSE [f EXCEPT !.timedOut = TRUE]

\* lines 268-281, 298-313: an instance that is not COMPLETED is adopted
DoFindExisting(e) ==
    /\ pc[e] = "do_findExisting"
    /\ LET found == findExistingInstance(frame[e].stepId)
       IN  IF found # {}
           THEN \E i \in found :
                /\ frame' = [frame EXCEPT ![e] =
                                WithTimeoutPromise(
                                    [@ EXCEPT !.instance = i, !.adopted = TRUE,
                                              !.adoptedRetries =
                                                 workflowStepInstances[i].retries],
                                    now)]
                /\ pc' = [pc EXCEPT ![e] = "do_loop"]
           ELSE /\ pc' = [pc EXCEPT ![e] = "do_createInstance"]
                /\ frame' = frame
    /\ UNCHANGED <<store, now, step, runner, calls>>

\* lines 282-313: otherwise a new RUNNING instance is created
DoCreateInstance(e) ==
    /\ pc[e] = "do_createInstance"
    /\ workflowStepInstances' =
         Append(workflowStepInstances, StepInstanceRow(frame[e].stepId))
    /\ frame' = [frame EXCEPT ![e] =
                    WithTimeoutPromise(
                        [@ EXCEPT !.instance = Len(workflowStepInstances) + 1], now)]
    /\ pc' = [pc EXCEPT ![e] = "do_loop"]
    /\ UNCHANGED <<workflowInstances, workflowSteps, workflowSleepInstances,
                   now, step, runner, calls>>

\* the comparison off by one: the last retry is never made
retriesExhaustedEarly(retryCount, limit) == retryCount + 1 >= limit

\* line 361: if (retryCount >= retryLimit)
retriesExhausted(retryCount, limit) == retryCount >= limit

\* lines 356-361, 385: the catch block, up to the exhaustion write
Caught(f, err) ==
    [f EXCEPT !.lastError = err, !.fn = NoFn, !.wakeAt = NullTime,
              !.retryCount = IF retriesExhausted(f.retryCount, retryLimit(f.options))
                             THEN @ ELSE @ + 1]

AfterCatch(f) ==
    IF retriesExhausted(f.retryCount, retryLimit(f.options))
    THEN "do_failedTx" ELSE "do_loop"

\* line 315: while (retryCount <= retryLimit)
loopContinues(retryCount, limit) == retryCount <= limit

\* lines 315-321 and 389-391: the loop head and the parse of the retry delay
DoLoop(e) ==
    /\ pc[e] = "do_loop"
    /\ LET f == frame[e]
           delay == retryDelayOption(f.options)
       IN  IF ~loopContinues(f.retryCount, retryLimit(f.options))
           THEN /\ frame' = [frame EXCEPT ![e] = Raised(f, f.lastError)]
                /\ pc' = [pc EXCEPT ![e] = "raised"]
           ELSE IF f.retryCount > 0 /\ Truthy(delay)
           THEN IF parseDuration(delay).ok
                THEN /\ pc' = [pc EXCEPT ![e] = "do_retryWrite"]
                     /\ frame' = frame
                ELSE /\ frame' = [frame EXCEPT ![e] = Caught(f, parseDuration(delay).error)]
                     /\ pc' = [pc EXCEPT ![e] = AfterCatch(f)]
           ELSE /\ pc' = [pc EXCEPT ![e] = "do_invoke"]
                /\ frame' = frame
    /\ UNCHANGED <<store, now, step, runner, calls>>

\* lines 323-331: the RETRYING write, then the backoff timer is set
DoRetryWrite(e) ==
    /\ pc[e] = "do_retryWrite"
    /\ workflowStepInstances' =
         [workflowStepInstances EXCEPT ![frame[e].instance] =
            [@ EXCEPT !.status = "RETRYING", !.retries = frame[e].retryCount]]
    /\ frame' = [frame EXCEPT
                    ![e].wakeAt = now + retryDelay(frame[e].options, frame[e].retryCount),
                    ![e].retryingWrites = @ + 1,
                    ![e].backoffFrom = now]
    /\ pc' = [pc EXCEPT ![e] = "do_backoff"]
    /\ UNCHANGED <<workflowInstances, workflowSteps, workflowSleepInstances,
                   now, step, runner, calls>>

\* line 331: the backoff timer fires
DoBackoffWake(e) ==
    /\ pc[e] = "do_backoff"
    /\ frame[e].wakeAt <= now
    /\ frame' = [frame EXCEPT ![e].wakeAt = NullTime,
                                ![e].backoffFrom = NullTime,
                                ![e].lastWait = now - frame[e].backoffFrom,
                                ![e].waited = @ + (now - frame[e].backoffFrom)]
    /\ pc' = [pc EXCEPT ![e] = "do_invoke"]
    /\ UNCHANGED <<store, now, step, runner, calls>>

\* line 335: executor() is called and raced against the timeout promise.
\* b is what this call of the function does: it settles before it returns
\* (sync), after dur milliseconds, or never
DoInvoke(e, b) ==
    /\ pc[e] = "do_invoke"
    /\ frame' = [frame EXCEPT
                    ![e].fn = [outcome |-> b.outcome, value |-> b.value,
                               error |-> b.error, sync |-> b.sync,
                               startedAt |-> now, settleAt |-> now + b.dur],
                    ![e].fnCalls = @ + 1]
    /\ pc' = [pc EXCEPT ![e] = "do_race"]
    /\ UNCHANGED <<store, now, step, runner, calls>>

\* lines 303-305: the deadline timer fires and rejects the timeout promise
TimeoutFires(e) ==
    /\ frame[e].timeoutAt # NullTime
    /\ frame[e].timeoutAt <= now
    /\ frame' = [frame EXCEPT ![e].timedOut = TRUE, ![e].timeoutAt = NullTime]
    /\ UNCHANGED <<store, now, pc, step, runner, calls>>

\* Promise.race: a promise of the function that was settled when it was
\* returned is first in the array and wins; otherwise the first to settle
FnWinsRace(f) ==
    /\ f.fn.outcome \in {"ok", "throw"}
    /\ f.fn.sync \/ ~f.timedOut

\* lines 335-340 and 356: the function settles first
FnSettles(e) ==
    /\ pc[e] = "do_race"
    /\ FnWinsRace(frame[e])
    /\ frame[e].fn.settleAt <= now
    /\ LET f == frame[e]
       IN  IF f.fn.outcome = "ok"
           THEN /\ frame' = [frame EXCEPT ![e].result = f.fn.value,
                                ![e].timeoutAt = NullTime, ![e].fn = NoFn]
                /\ pc' = [pc EXCEPT ![e] = "do_completeWrite"]
           ELSE /\ frame' = [frame EXCEPT ![e] = Caught(f, f.fn.error)]
                /\ pc' = [pc EXCEPT ![e] = AfterCatch(f)]
    /\ UNCHANGED <<store, now, step, runner, calls>>

\* lines 335 and 356: the rejected timeout promise wins the race; the function
\* goes on running, its promise no longer awaited
RaceTimeout(e) ==
    /\ pc[e] = "do_race"
    /\ frame[e].timedOut
    /\ ~frame[e].fn.sync
    /\ LET f == frame[e]
       IN  /\ frame' = [frame EXCEPT ![e] =
                           [Caught(f, timeoutReason(f.name, f.options))
                              EXCEPT !.lostRace = f.fn]]
           /\ step' = [step EXCEPT ![e].orphans =
                         @ \cup {[instance |-> f.instance, name |-> f.name,
                                  call |-> calls, attempt |-> f.fnCalls,
                                  fn |-> f.fn]}]
           /\ pc' = [pc EXCEPT ![e] = AfterCatch(f)]
    /\ UNCHANGED <<store, now, runner, calls>>

\* a promise that settles: one that fulfils or rejects, at its time
Settles(fn) == fn.outcome \in {"ok", "throw"}

\* a handler that persisted what the orphan resolved with
OrphanSettlesPersists(e) ==
    \E o \in step[e].orphans :
        /\ Settles(o.fn)
        /\ o.fn.settleAt <= now
        /\ step' = [step EXCEPT ![e].orphans = @ \ {o},
                                 ![e].settledOrphans = @ \cup
                                    {[instance |-> o.instance, name |-> o.name,
                                      call |-> o.call, attempt |-> o.attempt,
                                      outcome |-> o.fn.outcome,
                                      value |-> o.fn.value]}]
        /\ workflowStepInstances' =
             [workflowStepInstances EXCEPT ![o.instance] =
                IF o.fn.outcome = "ok"
                THEN [@ EXCEPT !.status = "COMPLETED", !.output = o.fn.value,
                               !.completedAt = now]
                ELSE @]
        /\ UNCHANGED <<workflowInstances, workflowSteps, workflowSleepInstances,
                       now, pc, frame, runner, calls>>

\* line 335: the promise of a function that lost its race settles; the only
\* reactions to it were those of Promise.race, which has settled already, so
\* nothing of the program runs
OrphanSettles(e) ==
    \E o \in step[e].orphans :
        /\ Settles(o.fn)
        /\ o.fn.settleAt <= now
        /\ step' = [step EXCEPT ![e].orphans = @ \ {o},
                                 ![e].settledOrphans = @ \cup
                                    {[instance |-> o.instance, name |-> o.name,
                                      call |-> o.call, attempt |-> o.attempt,
                                      outcome |-> o.fn.outcome,
                                      value |-> o.fn.value]}]
        /\ UNCHANGED <<store, now, pc, frame, runner, calls>>

\* the update with the status left out of its data
completedDataNoStatus(row, result, t) ==
    [row EXCEPT !.output = result, !.completedAt = t]

\* lines 345-349: the data of the COMPLETED update
completedData(row, result, t) ==
    [row EXCEPT !.status = "COMPLETED", !.output = result, !.completedAt = t]

\* lines 343-350: the COMPLETED write
DoCompleteWrite(e) ==
    /\ pc[e] = "do_completeWrite"
    /\ workflowStepInstances' =
         [workflowStepInstances EXCEPT ![frame[e].instance] =
            completedData(@, frame[e].result, now)]
    /\ pc' = [pc EXCEPT ![e] = "do_return"]
    /\ UNCHANGED <<workflowInstances, workflowSteps, workflowSleepInstances,
                   now, step, frame, runner, calls>>

\* lines 352-355: the result is cached and returned
DoReturn(e) ==
    /\ pc[e] = "do_return"
    /\ step' = [step EXCEPT ![e].stepState[frame[e].name] = frame[e].result,
                             ![e].doReturned[frame[e].name] = frame[e].result]
    /\ frame' = [frame EXCEPT ![e] = Returned(@, @.result)]
    /\ pc' = [pc EXCEPT ![e] = "body"]
    /\ UNCHANGED <<store, now, runner, calls>>

\* lines 361-383: the exhaustion transaction, then throw lastError
DoFailedTx(e) ==
    /\ pc[e] = "do_failedTx"
    /\ LET f == frame[e]
       IN  /\ workflowStepInstances' =
                [workflowStepInstances EXCEPT ![f.instance] =
                   [@ EXCEPT !.status = "FAILED", !.failedReason = f.lastError,
                             !.retries = f.retryCount]]
           /\ workflowInstances' =
                [workflowInstances EXCEPT ![step[e].workflowInstanceId] =
                   [@ EXCEPT !.status = "FAILED",
                             !.failedReason = StepFailedMsg(f.name, f.lastError)]]
           /\ frame' = [frame EXCEPT ![e] =
                           [Raised(f, f.lastError) EXCEPT !.exhausted = TRUE]]
    /\ runner' = [runner EXCEPT ![e].exhausted = TRUE]
    /\ pc' = [pc EXCEPT ![e] = "raised"]
    /\ UNCHANGED <<workflowSteps, workflowSleepInstances, now, step, calls>>

----------------------------------------------------------------------------
(* WorkflowStep.sleep (workflow/step.ts, lines 394-465)                    *)

\* whether a SleepInstance (w, name) with completedAt set exists when a call
\* begins
EntrySlept(w, name) ==
    \E s \in Ids(workflowSleepInstances) :
        /\ workflowSleepInstances[s].workflowInstanceId = w
        /\ workflowSleepInstances[s].name = name
        /\ workflowSleepInstances[s].completedAt # NullTime

\* lines 395-401: the duration is parsed and checked before anything is read
\* or written
BodyCallSleep(e, name, d) ==
    /\ pc[e] = "body"
    /\ calls < MaxCalls
    /\ calls' = calls + 1
    /\ LET p == parseDuration(d)
           f == [NoFrame EXCEPT !.op = "sleep", !.name = name, !.fnTime = now,
                                !.ms = p.ms, !.outcome = "running",
                                !.duration = d,
                                !.entrySlept =
                                   EntrySlept(step[e].workflowInstanceId, name)]
       IN  IF ~p.ok
           THEN /\ frame' = [frame EXCEPT ![e] = Raised(f, p.error)]
                /\ pc' = [pc EXCEPT ![e] = "raised"]
           ELSE IF exceedsMaxSafeInteger(p.ms, p.scale)
           THEN /\ frame' = [frame EXCEPT ![e] =
                                Raised(f, DurationOverflowMsg(name, p.ms, p.scale))]
                /\ pc' = [pc EXCEPT ![e] = "raised"]
           ELSE /\ frame' = [frame EXCEPT ![e] = f]
                /\ pc' = [pc EXCEPT ![e] = "sleep_find"]
    /\ UNCHANGED <<store, now, step, runner>>

\* setTimeout treats a negative delay as none
timerDelay(ms) == IF ms > 0 THEN ms ELSE 0

\* the elapsed time forgotten: a resumed sleep waits its whole duration again
remainingSleepTimeWhole(row, fnTime) == row.duration

\* lines 444-445
remainingSleepTime(row, fnTime) == row.duration - (fnTime - row.startedAt)

\* the test of completedAt lost: no sleep is ever taken as completed
sleepCompletedNever(row) == FALSE

\* line 412: existingSleepInstance.completedAt !== null
sleepCompleted(row) == row.completedAt # NullTime

\* lines 403-421, 444-448: a completed sleep returns, an open one is adopted
SleepFind(e) ==
    /\ pc[e] = "sleep_find"
    /\ LET found == findSleepInstance(step[e].workflowInstanceId, frame[e].name)
       IN  IF found = {}
           THEN /\ pc' = [pc EXCEPT ![e] = "sleep_createTx"]
                /\ frame' = frame
           ELSE \E s \in found :
                IF sleepCompleted(workflowSleepInstances[s])
                THEN /\ frame' = [frame EXCEPT ![e] =
                                     [Returned(@, Undefined) EXCEPT !.memoized = TRUE]]
                     /\ pc' = [pc EXCEPT ![e] = "body"]
                ELSE /\ frame' = [frame EXCEPT ![e].instance = s,
                                     ![e].adopted = TRUE,
                                     ![e].backoffFrom = now,
                                     ![e].wakeAt = now + timerDelay(
                                        remainingSleepTime(workflowSleepInstances[s],
                                                           frame[e].fnTime))]
                     /\ pc' = [pc EXCEPT ![e] = "sleep_wait"]
    /\ UNCHANGED <<store, now, step, runner, calls>>

\* the two writes not in a transaction: the create alone has been applied
SleepCreateRowOnly(e) ==
    /\ pc[e] = "sleep_createTx"
    /\ findSleepInstance(step[e].workflowInstanceId, frame[e].name) = {}
    /\ workflowSleepInstances' =
         Append(workflowSleepInstances,
                SleepRow(step[e].workflowInstanceId, frame[e].name, frame[e].ms,
                         frame[e].fnTime))
    /\ frame' = [frame EXCEPT
                    ![e].instance = Len(workflowSleepInstances) + 1,
                    ![e].backoffFrom = now,
                    ![e].wakeAt = now + timerDelay(frame[e].ms)]
    /\ pc' = [pc EXCEPT ![e] = "sleep_wait"]
    /\ UNCHANGED <<workflowInstances, workflowSteps, workflowStepInstances,
                   now, step, runner, calls>>

\* lines 422-448: the row is created and the workflow set SLEEPING in one
\* transaction, which the unique index on (workflowInstanceId, name) can refuse
SleepCreateTx(e) ==
    /\ pc[e] = "sleep_createTx"
    /\ LET w == step[e].workflowInstanceId
           row == SleepRow(w, frame[e].name, frame[e].ms, frame[e].fnTime)
       IN  IF findSleepInstance(w, frame[e].name) # {}
           THEN /\ frame' = [frame EXCEPT ![e] = Raised(@, UniqueConstraintMsg)]
                /\ pc' = [pc EXCEPT ![e] = "raised"]
                /\ UNCHANGED <<workflowSleepInstances, workflowInstances>>
           ELSE /\ workflowSleepInstances' = Append(workflowSleepInstances, row)
                /\ workflowInstances' =
                     [workflowInstances EXCEPT ![w].status = "SLEEPING"]
                /\ frame' = [frame EXCEPT
                                ![e].instance = Len(workflowSleepInstances) + 1,
                                ![e].backoffFrom = now,
                                ![e].wakeAt = now + timerDelay(
                                    remainingSleepTime(row, frame[e].fnTime))]
                /\ pc' = [pc EXCEPT ![e] = "sleep_wait"]
    /\ UNCHANGED <<workflowSteps, workflowStepInstances, now, step, runner, calls>>

\* line 448: the timer fires
SleepWake(e) ==
    /\ pc[e] = "sleep_wait"
    /\ frame[e].wakeAt <= now
    /\ frame' = [frame EXCEPT ![e].wakeAt = NullTime,
                                ![e].backoffFrom = NullTime,
                                ![e].lastWait = now - frame[e].backoffFrom]
    /\ pc' = [pc EXCEPT ![e] = "sleep_endTx"]
    /\ UNCHANGED <<store, now, step, runner, calls>>

\* lines 450-465: completedAt and the workflow back to RUNNING, one transaction
SleepEndTx(e) ==
    /\ pc[e] = "sleep_endTx"
    /\ workflowSleepInstances' =
         [workflowSleepInstances EXCEPT ![frame[e].instance].completedAt = now]
    /\ workflowInstances' =
         [workflowInstances EXCEPT ![step[e].workflowInstanceId].status = "RUNNING"]
    /\ frame' = [frame EXCEPT ![e] = Returned(@, Undefined)]
    /\ pc' = [pc EXCEPT ![e] = "body"]
    /\ UNCHANGED <<workflowSteps, workflowStepInstances, now, step, runner, calls>>

----------------------------------------------------------------------------
(* The environment: the host process and the clock.                        *)

Live(e) == pc[e] \notin {"idle", "returned"}

\* the process dies: every executor, its caches and its timers are gone; the
\* store stays
Crash ==
    /\ \E e \in Execs : Live(e)
    /\ pc' = [e \in Execs |-> "idle"]
    /\ step' = [e \in Execs |-> NewWorkflowStep(0)]
    /\ frame' = [e \in Execs |-> NoFrame]
    /\ runner' = [e \in Execs |-> NoRunner]
    /\ UNCHANGED <<store, now, calls>>

\* a new WorkflowStep is built for an existing workflow no executor owns and
\* the body is run on it again (a resumed workflow); a resumed body that
\* makes no call does nothing, so one is started only while calls are left
Resume(e, w) ==
    /\ ~Live(e)
    /\ calls < MaxCalls
    /\ w \in Ids(workflowInstances)
    /\ \A o \in Execs \ {e} : Live(o) => step[o].workflowInstanceId # w
    /\ runner' = [runner EXCEPT ![e] =
                    [NoRunner EXCEPT !.mode = "bare", !.workflowId = w]]
    /\ step' = [step EXCEPT ![e] = NewWorkflowStep(w)]
    /\ frame' = [frame EXCEPT ![e] = NoFrame]
    /\ pc' = [pc EXCEPT ![e] = "body"]
    /\ UNCHANGED <<store, now, calls>>

\* a second owner: new WorkflowStep(w, prisma) built for a workflow whatever
\* other executor is at work on it (no lease, no owner id), and the body run
Attach(e, w) ==
    /\ ~Live(e)
    /\ calls < MaxCalls
    /\ w \in Ids(workflowInstances)
    /\ runner' = [runner EXCEPT ![e] =
                    [NoRunner EXCEPT !.mode = "bare", !.workflowId = w]]
    /\ step' = [step EXCEPT ![e] = NewWorkflowStep(w)]
    /\ frame' = [frame EXCEPT ![e] = NoFrame]
    /\ pc' = [pc EXCEPT ![e] = "body"]
    /\ UNCHANGED <<store, now, calls>>

\* positions that are not awaits (the code runs on without yielding) and
\* timers that are due: the clock does not pass them
Due(e) ==
    \/ pc[e] \in {"do_loop", "do_invoke", "raised", "body", "do_return", "run_return"}
    \/ frame[e].timeoutAt # NullTime /\ frame[e].timeoutAt <= now
    \/ pc[e] \in {"do_backoff", "sleep_wait"} /\ frame[e].wakeAt <= now
    \/ pc[e] = "do_race" /\ FnWinsRace(frame[e]) /\ frame[e].fn.settleAt <= now
    \/ pc[e] = "do_race" /\ frame[e].timedOut /\ ~frame[e].fn.sync
    \/ \E o \in step[e].orphans : Settles(o.fn) /\ o.fn.settleAt <= now

\* a timer that has not fired yet: of an executor, or the durable timer of
\* a sleep row that is not completed; a function that is still to settle
\* counts as one
TimerPending ==
    \/ \E e \in Execs : frame[e].timeoutAt # NullTime \/ frame[e].wakeAt # NullTime
    \/ \E e \in Execs : pc[e] = "do_race" /\ frame[e].fn.outcome \in {"ok", "throw"}
    \/ \E e \in Execs : \E o \in step[e].orphans : Settles(o.fn)
    \/ \E s \in Ids(workflowSleepInstances) :
          /\ workflowSleepInstances[s].completedAt = NullTime
          /\ workflowSleepInstances[s].startedAt + workflowSleepInstances[s].duration > now

\* the clock advances; it is observed only through timers, so it is let run
\* only while one is pending
Tick ==
    /\ now < MaxTime
    /\ TimerPending
    /\ \A e \in Execs : ~Due(e)
    /\ now' = now + 1
    /\ UNCHANGED <<store, pc, step, frame, runner, calls>>

----------------------------------------------------------------------------
(* The inputs of the specifications.                                       *)

Ms(n) == Duration(n, 1, "milliseconds")

Behaviour(outcome, value, error, sync, dur) ==
    [outcome |-> outcome, value |-> value, error |-> error, sync |-> sync,
     dur |-> dur]

\* the function settles before it returns its promise
SyncBehaviours ==
    {Behaviour("ok", v, NoError, TRUE, 0) : v \in Vals}
      \cup {Behaviour("throw", Null, m, TRUE, 0) : m \in FnMessages}

\* the function settles later (in the same millisecond, after 1 or 3) or never
AsyncBehaviours ==
    {Behaviour("ok", "x", NoError, FALSE, 0),
     Behaviour("ok", "x", NoError, FALSE, 1),
     Behaviour("ok", "x", NoError, FALSE, 3),
     Behaviour("throw", Null, Boom, FALSE, 1),
     Behaviour("never", Null, NoError, FALSE, 0)}

\* options without a timeout: no retries, a fixed and an exponential delay, a
\* delay that does not parse, an empty delay
RetryOptions ==
    {NoOptions,
     Options(TRUE, 1, Ms(1), "fixed", EmptyString),
     Options(TRUE, 2, Ms(1), "exponential", EmptyString),
     Options(TRUE, 1, Duration(1, 1, "fortnights"), "fixed", EmptyString),
     Options(TRUE, 1, EmptyString, "fixed", EmptyString)}

SleepDurations == {Ms(0), Ms(2), Duration(3, 1, "fortnights")}

TheExec == {1}

(* Spec: one executor at a time owns the workflow; the body calls do (with *)
(* and without retries) and sleep; the workflow is cancelled, the process  *)
(* crashes and the workflow is resumed at any point.                       *)

Next ==
    \/ \E e \in TheExec : RunCreate(e)
    \/ \E e \in TheExec : RunSetRunning(e)
    \/ \E e \in TheExec : RunComplete(e)
    \/ \E e \in TheExec : RunCatch(e)
    \/ \E e \in TheExec : RunReturn(e)
    \/ \E w \in 1 .. MaxWorkflows : Cancel(w)
    \/ \E e \in TheExec, v \in Vals : BodyReturn(e, v)
    \/ \E e \in TheExec, m \in BodyMessages : BodyThrow(e, m)
    \/ \E e \in TheExec : BodyCatch(e)
    \/ \E e \in TheExec : BodyPropagate(e)
    \/ \E e \in TheExec, n \in Names, o \in RetryOptions, hasFn \in BOOLEAN :
          BodyCallDo(e, n, o, hasFn)
    \/ \E e \in TheExec : GetOrCreateStepFind(e)
    \/ \E e \in TheExec : GetOrCreateStepCreate(e)
    \/ \E e \in TheExec : DoFindCompleted(e)
    \/ \E e \in TheExec : DoFindExisting(e)
    \/ \E e \in TheExec : DoCreateInstance(e)
    \/ \E e \in TheExec : DoLoop(e)
    \/ \E e \in TheExec : DoRetryWrite(e)
    \/ \E e \in TheExec : DoBackoffWake(e)
    \/ \E e \in TheExec, b \in SyncBehaviours : DoInvoke(e, b)
    \/ \E e \in TheExec : FnSettles(e)
    \/ \E e \in TheExec : DoCompleteWrite(e)
    \/ \E e \in TheExec : DoReturn(e)
    \/ \E e \in TheExec : DoFailedTx(e)
    \/ \E e \in TheExec, n \in Names, d \in SleepDurations : BodyCallSleep(e, n, d)
    \/ \E e \in TheExec : SleepFind(e)
    \/ \E e \in TheExec : SleepCreateTx(e)
    \/ \E e \in TheExec : SleepWake(e)
    \/ \E e \in TheExec : SleepEndTx(e)
    \/ Crash
    \/ \E e \in TheExec, w \in 1 .. MaxWorkflows : Resume(e, w)
    \/ Tick

Spec == Init /\ [][Next]_vars

\* options with a timeout of 2 ms: no retries, one retry after a fixed delay,
\* two retries with exponential backoff
TimeoutOptions ==
    {Options(FALSE, 0, EmptyString, "fixed", Ms(2)),
     Options(TRUE, 1, Ms(1), "fixed", Ms(2)),
     Options(TRUE, 2, Ms(1), "exponential", Ms(2))}

\* arguments of sleep: one that is waited for, "2ms" (no whitespace), an
\* unknown unit, and the least number of days beyond Number.MAX_SAFE_INTEGER
ValidationDurations ==
    {Ms(1), Duration(2, 0, "ms"), Duration(3, 1, "fortnights"),
     Duration(104249992, 1, "days")}

(* SpecValidation: a run whose body calls do with or without a function and *)
(* sleep with durations that are accepted or refused, while the workflow    *)
(* may be cancelled.                                                        *)

NextValidation ==
    \/ \E e \in TheExec : RunCreate(e)
    \/ \E e \in TheExec : RunSetRunning(e)
    \/ \E e \in TheExec : RunComplete(e)
    \/ \E e \in TheExec : RunCatch(e)
    \/ \E e \in TheExec : RunReturn(e)
    \/ \E w \in 1 .. MaxWorkflows : Cancel(w)
    \/ \E e \in TheExec : BodyReturn(e, "x")
    \/ \E e \in TheExec : BodyCatch(e)
    \/ \E e \in TheExec : BodyPropagate(e)
    \/ \E e \in TheExec, n \in Names, hasFn \in BOOLEAN :
          BodyCallDo(e, n, NoOptions, hasFn)
    \/ \E e \in TheExec : GetOrCreateStepFind(e)
    \/ \E e \in TheExec : GetOrCreateStepCreate(e)
    \/ \E e \in TheExec : DoFindCompleted(e)
    \/ \E e \in TheExec : DoFindExisting(e)
    \/ \E e \in TheExec : DoCreateInstance(e)
    \/ \E e \in TheExec : DoLoop(e)
    \/ \E e \in TheExec, b \in SyncBehaviours : DoInvoke(e, b)
    \/ \E e \in TheExec : FnSettles(e)
    \/ \E e \in TheExec : DoCompleteWrite(e)
    \/ \E e \in TheExec : DoReturn(e)
    \/ \E e \in TheExec : DoFailedTx(e)
    \/ \E e \in TheExec, n \in Names, d \in ValidationDurations :
          BodyCallSleep(e, n, d)
    \/ \E e \in TheExec : SleepFind(e)
    \/ \E e \in TheExec : SleepCreateTx(e)
    \/ \E e \in TheExec : SleepWake(e)
    \/ \E e \in TheExec : SleepEndTx(e)
    \/ Tick

SpecValidation == Init /\ [][NextValidation]_vars

\* options with a timeout and a limit of 0, 1 or 2: a timeout of 1 ms, and
\* one that does not parse (the timeout promise is rejected at once)
TerminationOptions ==
    {Options(FALSE, 0, EmptyString, "fixed", Ms(1)),
     Options(TRUE, 1, Ms(1), "fixed", Ms(1)),
     Options(TRUE, 2, Ms(1), "exponential", Ms(1)),
     Options(TRUE, 1, Ms(1), "fixed", Duration(1, 1, "fortnights"))}

\* what a call of the function does there: it resolves or throws at once,
\* resolves after the deadline, or never settles
TerminationBehaviours ==
    {Behaviour("ok", "x", NoError, TRUE, 0),
     Behaviour("throw", Null, Boom, TRUE, 0),
     Behaviour("ok", "y", NoError, FALSE, 2),
     Behaviour("never", Null, NoError, FALSE, 0)}

\* a timer of a call that is still to fire, or its function still to settle
CallTimerPending ==
    \E e \in Execs :
        \/ frame[e].timeoutAt > now
        \/ frame[e].wakeAt > now
        \/ pc[e] = "do_race" /\ Settles(frame[e].fn) /\ frame[e].fn.settleAt > now

\* the clock of SpecTermination: it runs like Tick, and beyond MaxTime as far
\* as the timers of the calls under way, so that no timer is cut off
TickToTimer ==
    /\ now < MaxTime \/ CallTimerPending
    /\ TimerPending
    /\ \A e \in Execs : ~Due(e)
    /\ now' = now + 1
    /\ UNCHANGED <<store, pc, step, frame, runner, calls>>

(* SpecTermination: every do call has a timeout and a finite retry limit,  *)
(* and each call of the function settles at once, late, or never. The      *)
(* store answers every query, every timer that is due fires and a promise  *)
(* that settles does so at its time (weak fairness of the steps of a call, *)
(* of the orphans and of the clock); nothing obliges the body to make a    *)
(* call or run to go on.                                                   *)

NextTermination ==
    \/ \E e \in TheExec : RunCreate(e)
    \/ \E e \in TheExec : RunSetRunning(e)
    \/ \E e \in TheExec : RunComplete(e)
    \/ \E e \in TheExec : RunCatch(e)
    \/ \E e \in TheExec : RunReturn(e)
    \/ \E e \in TheExec : BodyReturn(e, "x")
    \/ \E e \in TheExec : BodyCatch(e)
    \/ \E e \in TheExec : BodyPropagate(e)
    \/ \E e \in TheExec, n \in Names, o \in TerminationOptions :
          BodyCallDo(e, n, o, TRUE)
    \/ \E e \in TheExec : GetOrCreateStepFind(e)
    \/ \E e \in TheExec : GetOrCreateStepCreate(e)
    \/ \E e \in TheExec : DoFindCompleted(e)
    \/ \E e \in TheExec : DoFindExisting(e)
    \/ \E e \in TheExec : DoCreateInstance(e)
    \/ \E e \in TheExec : DoLoop(e)
    \/ \E e \in TheExec : DoRetryWrite(e)
    \/ \E e \in TheExec : DoBackoffWake(e)
    \/ \E e \in TheExec, b \in TerminationBehaviours : DoInvoke(e, b)
    \/ \E e \in TheExec : TimeoutFires(e)
    \/ \E e \in TheExec : FnSettles(e)
    \/ \E e \in TheExec : RaceTimeout(e)
    \/ \E e \in TheExec : OrphanSettles(e)
    \/ \E e \in TheExec : DoCompleteWrite(e)
    \/ \E e \in TheExec : DoReturn(e)
    \/ \E e \in TheExec : DoFailedTx(e)
    \/ TickToTimer

\* the steps of a do call of executor e: the answers of the store, the
\* timers that are due, the settlement of a function that settles
DoStep(e) ==
    \/ GetOrCreateStepFind(e)
    \/ GetOrCreateStepCreate(e)
    \/ DoFindCompleted(e)
    \/ DoFindExisting(e)
    \/ DoCreateInstance(e)
    \/ DoLoop(e)
    \/ DoRetryWrite(e)
    \/ DoBackoffWake(e)
    \/ \E b \in TerminationBehaviours : DoInvoke(e, b)
    \/ TimeoutFires(e)
    \/ FnSettles(e)
    \/ RaceTimeout(e)
    \/ DoCompleteWrite(e)
    \/ DoReturn(e)
    \/ DoFailedTx(e)

SpecTermination ==
    /\ Init
    /\ [][NextTermination]_vars
    /\ \A e \in TheExec : WF_vars(DoStep(e))
    /\ \A e \in TheExec : WF_vars(OrphanSettles(e))
    /\ WF_vars(TickToTimer)

(* SpecTimeout: the do calls of a run have a timeout, and each call of the *)
(* function settles at once, after some milliseconds, or never.            *)

NextTimeout ==
    \/ \E e \in TheExec : RunCreate(e)
    \/ \E e \in TheExec : RunSetRunning(e)
    \/ \E e \in TheExec : RunComplete(e)
    \/ \E e \in TheExec : RunCatch(e)
    \/ \E e \in TheExec : RunReturn(e)
    \/ \E e \in TheExec : BodyReturn(e, "x")
    \/ \E e \in TheExec : BodyCatch(e)
    \/ \E e \in TheExec : BodyPropagate(e)
    \/ \E e \in TheExec, n \in Names, o \in TimeoutOptions : BodyCallDo(e, n, o, TRUE)
    \/ \E e \in TheExec : GetOrCreateStepFind(e)
    \/ \E e \in TheExec : GetOrCreateStepCreate(e)
    \/ \E e \in TheExec : DoFindCompleted(e)
    \/ \E e \in TheExec : DoFindExisting(e)
    \/ \E e \in TheExec : DoCreateInstance(e)
    \/ \E e \in TheExec : DoLoop(e)
    \/ \E e \in TheExec : DoRetryWrite(e)
    \/ \E e \in TheExec : DoBackoffWake(e)
    \/ \E e \in TheExec, b \in SyncBehaviours \cup AsyncBehaviours : DoInvoke(e, b)
    \/ \E e \in TheExec : TimeoutFires(e)
    \/ \E e \in TheExec : FnSettles(e)
    \/ \E e \in TheExec : RaceTimeout(e)
    \/ \E e \in TheExec : OrphanSettles(e)
    \/ \E e \in TheExec : DoCompleteWrite(e)
    \/ \E e \in TheExec : DoReturn(e)
    \/ \E e \in TheExec : DoFailedTx(e)
    \/ Tick

SpecTimeout == Init /\ [][NextTimeout]_vars

(* SpecRepeat: a workflow whose body calls do (functions that return) is  *)
(* run to its end, and run is then called again for it.                    *)

NextRepeat ==
    \/ \E e \in TheExec : RunRepeat(e)
    \/ \E e \in TheExec : RunSetRunning(e)
    \/ \E e \in TheExec : RunComplete(e)
    \/ \E e \in TheExec : RunReturn(e)
    \/ \E e \in TheExec, v \in Vals : BodyReturn(e, v)
    \/ \E e \in TheExec, n \in Names : BodyCallDo(e, n, NoOptions, TRUE)
    \/ \E e \in TheExec : GetOrCreateStepFind(e)
    \/ \E e \in TheExec : GetOrCreateStepCreate(e)
    \/ \E e \in TheExec : DoFindCompleted(e)
    \/ \E e \in TheExec : DoFindExisting(e)
    \/ \E e \in TheExec : DoCreateInstance(e)
    \/ \E e \in TheExec : DoLoop(e)
    \/ \E e \in TheExec, v \in Vals : DoInvoke(e, Behaviour("ok", v, NoError, TRUE, 0))
    \/ \E e \in TheExec : FnSettles(e)
    \/ \E e \in TheExec : DoCompleteWrite(e)
    \/ \E e \in TheExec : DoReturn(e)

SpecRepeat == Init /\ [][NextRepeat]_vars

(* SpecConcurrent: two executors at work at once, on two workflows or on  *)
(* one; their do calls (functions that return) interleave at every await.  *)

NextConcurrent ==
    \/ \E e \in Execs : RunRepeat(e)
    \/ \E e \in Execs : RunSetRunning(e)
    \/ \E e \in Execs : RunComplete(e)
    \/ \E e \in Execs : RunCatch(e)
    \/ \E e \in Execs : RunReturn(e)
    \/ \E e \in Execs, w \in 1 .. MaxWorkflows + 1 : Attach(e, w)
    \/ \E e \in Execs : BodyReturn(e, "x")
    \/ \E e \in Execs : BodyPropagate(e)
    \/ \E e \in Execs, n \in Names : BodyCallDo(e, n, NoOptions, TRUE)
    \/ \E e \in Execs : GetOrCreateStepFind(e)
    \/ \E e \in Execs : GetOrCreateStepCreate(e)
    \/ \E e \in Execs : DoFindCompleted(e)
    \/ \E e \in Execs : DoFindExisting(e)
    \/ \E e \in Execs : DoCreateInstance(e)
    \/ \E e \in Execs : DoLoop(e)
    \/ \E e \in Execs : DoInvoke(e, Behaviour("ok", "x", NoError, TRUE, 0))
    \/ \E e \in Execs : FnSettles(e)
    \/ \E e \in Execs : DoCompleteWrite(e)
    \/ \E e \in Execs : DoReturn(e)

SpecConcurrent == Init /\ [][NextConcurrent]_vars

----------------------------------------------------------------------------
(* Properties.                                                             *)

\* the StepInstance rows of step (w, name)
InstancesOf(w, name) ==
    {i \in Ids(workflowStepInstances) :
        /\ workflowStepInstances[i].stepId \in Ids(workflowSteps)
        /\ workflowSteps[workflowStepInstances[i].stepId] = StepRow(w, name)}

\* C1: a do call (with a function) on a step that has a COMPLETED instance
\* when the call begins never calls the function, does not raise, and what
\* it returns is the persisted output; on any executor of the workflow, also
\* one built after a crash, and for a second call in one run.
C1_MemoizedReplay ==
    \A e \in Execs :
        (frame[e].op = "do" /\ frame[e].hasFn /\ frame[e].entryOutputs # {}) =>
            /\ frame[e].fnCalls = 0
            /\ frame[e].outcome # "raised"
            /\ frame[e].outcome = "returned" =>
                  frame[e].result \in frame[e].entryOutputs

\* a resumed executor (empty caches) has returned the output of a step that
\* was COMPLETED when it was called
C1_Witness ==
    \E e \in Execs :
        /\ runner[e].mode = "bare"
        /\ frame[e].op = "do" /\ frame[e].outcome = "returned"
        /\ frame[e].entryOutputs # {}
        /\ step[e].stepState[frame[e].name] = Undefined

\* C2: when do has returned a value its function produced, the store holds a
\* COMPLETED instance of that step with that value as output.
C2_CompletedBeforeReturn ==
    \A e \in Execs :
        (frame[e].op = "do" /\ frame[e].outcome = "returned" /\ frame[e].fnCalls > 0) =>
            \E i \in InstancesOf(step[e].workflowInstanceId, frame[e].name) :
                /\ workflowStepInstances[i].status = "COMPLETED"
                /\ workflowStepInstances[i].output = frame[e].result

\* do has just returned the value of its function to the body
C2_Witness ==
    \E e \in Execs :
        /\ pc[e] = "body"
        /\ frame[e].op = "do" /\ frame[e].outcome = "returned"
        /\ frame[e].fnCalls > 0 /\ frame[e].result \in Vals

\* C3: every Step has at most one COMPLETED StepInstance.
C3_SingleCompletion ==
    \A s \in Ids(workflowSteps) :
        Cardinality({i \in Ids(workflowStepInstances) :
                        /\ workflowStepInstances[i].stepId = s
                        /\ workflowStepInstances[i].status = "COMPLETED"}) <= 1

\* a step completed after a failed and retried attempt has been called again
C3_Witness ==
    \E e \in Execs :
        /\ frame[e].op = "do" /\ frame[e].outcome = "returned" /\ frame[e].memoized
        /\ \E i \in InstancesOf(step[e].workflowInstanceId, frame[e].name) :
              /\ workflowStepInstances[i].status = "COMPLETED"
              /\ workflowStepInstances[i].retries > 0

\* C4: a FAILED StepInstance belongs to a FAILED WorkflowInstance.
C4_FailedStepFailedWorkflow ==
    \A i \in Ids(workflowStepInstances) :
        workflowStepInstances[i].status = "FAILED" =>
            workflowInstances[
                workflowSteps[workflowStepInstances[i].stepId].workflowInstanceId
            ].status = "FAILED"

\* the lifecycle of a WorkflowInstance: the status changes it allows
LifecycleStep(from, to) ==
    \/ from = "PENDING" /\ to = "RUNNING"
    \/ from = "RUNNING" /\ to = "SLEEPING"
    \/ from = "SLEEPING" /\ to = "RUNNING"
    \/ from \in {"PENDING", "RUNNING", "SLEEPING"}
         /\ to \in {"COMPLETED", "FAILED", "CANCELED"}

\* C5: every change of a workflow's status is a step of the lifecycle, and
\* COMPLETED, FAILED and CANCELED are never left.
C5_WorkflowLifecycle ==
    [][\A w \in Ids(workflowInstances) :
          \/ workflowInstances'[w].status = workflowInstances[w].status
          \/ LifecycleStep(workflowInstances[w].status,
                           workflowInstances'[w].status)]_vars

\* C6: a StepInstance that is COMPLETED or FAILED keeps its status.
C6_StepInstanceTerminal ==
    [][\A i \in Ids(workflowStepInstances) :
          workflowStepInstances[i].status \in {"COMPLETED", "FAILED"} =>
              workflowStepInstances'[i].status = workflowStepInstances[i].status]_vars

\* run has returned the error of a step that exhausted its retries (the body
\* let it propagate)
RunFailedByExhaustion(e) ==
    /\ pc[e] = "returned" /\ runner[e].mode = "run" /\ runner[e].result = "err"
    /\ frame[e].op = "do" /\ frame[e].exhausted
    /\ runner[e].error = frame[e].error

\* C7: after run has returned the error of an exhausted step N with message M
\* the StepInstance is FAILED with failedReason M and retries = limit, and the
\* workflow is FAILED with failedReason 'Step "N" failed: M'.
C7_ExhaustionRecorded ==
    \A e \in Execs :
        RunFailedByExhaustion(e) =>
            /\ \E i \in InstancesOf(runner[e].workflowId, frame[e].name) :
                  /\ workflowStepInstances[i].status = "FAILED"
                  /\ workflowStepInstances[i].failedReason = frame[e].error
                  /\ workflowStepInstances[i].retries = retryLimit(frame[e].options)
            /\ workflowInstances[runner[e].workflowId].status = "FAILED"
            /\ workflowInstances[runner[e].workflowId].failedReason =
                  StepFailedMsg(frame[e].name, frame[e].error)

\* C8: once a step of a run has exhausted its retries the body is not
\* entered again; run returns the error and the workflow ends FAILED.
C8_ExhaustionEndsRun ==
    \A e \in Execs :
        (runner[e].mode = "run" /\ runner[e].exhausted) =>
            /\ pc[e] \in {"raised", "run_catch", "run_return", "returned"}
            /\ pc[e] = "returned" =>
                  /\ runner[e].result = "err"
                  /\ workflowInstances[runner[e].workflowId].status = "FAILED"

\* the retries option is absent, or its delay parses
ValidDelay(o) == ~o.hasRetries \/ parseDuration(o.delay).ok

\* C9: a do call with a valid delay whose every attempt failed has called the
\* function exactly limit + 1 times and raises the error of the last attempt;
\* with limit 0 the function is called at most once and the call writes no
\* RETRYING status.
C9_AttemptCount ==
    \A e \in Execs :
        (frame[e].op = "do" /\ ValidDelay(frame[e].options)) =>
            /\ frame[e].fnCalls <= retryLimit(frame[e].options) + 1
            /\ frame[e].exhausted =>
                  /\ frame[e].fnCalls = retryLimit(frame[e].options) + 1
                  /\ frame[e].outcome = "raised"
                  /\ frame[e].error # NoError
            /\ retryLimit(frame[e].options) = 0 =>
                  /\ frame[e].retryingWrites = 0
                  /\ pc[e] \notin {"do_retryWrite", "do_backoff"}

\* a call with limit 2 has raised after three calls of its function
C9_Witness ==
    \E e \in Execs :
        /\ frame[e].op = "do" /\ frame[e].exhausted
        /\ ValidDelay(frame[e].options)
        /\ retryLimit(frame[e].options) = 2
        /\ frame[e].fnCalls = 3
        /\ frame[e].retryingWrites = 2

\* C10: an attempt is failed by the timeout only when its function has not
\* settled within the timeout, counted from the start of that attempt.
C10_DeadlinePerAttempt ==
    \A e \in Execs :
        frame[e].lostRace.outcome \in {"ok", "throw"} =>
            frame[e].lostRace.settleAt - frame[e].lostRace.startedAt
                >= parseDuration(frame[e].options.timeout).ms

\* delay * 2^(k-1) milliseconds for exponential backoff, delay for fixed
ExpectedWait(o, k) ==
    parseDuration(o.delay).ms * (IF o.backoff = "exponential" THEN 2 ^ (k - 1) ELSE 1)

\* C11: in a do call whose retries have a delay that is a duration string,
\* while the call waits before attempt k > 0 and when attempt k then runs,
\* the instance is persisted RETRYING with retries = k and the wait is
\* delay * 2^(k-1) ms (delay for fixed backoff); when every attempt has
\* failed under exponential backoff the waits sum to delay * (2^L - 1).
C11_BackoffArithmetic ==
    \A e \in Execs :
        LET f == frame[e]
            k == f.retryCount
        IN  (f.op = "do" /\ f.options.hasRetries /\ parseDuration(f.options.delay).ok) =>
              /\ pc[e] = "do_backoff" =>
                    /\ k > 0
                    /\ workflowStepInstances[f.instance].status = "RETRYING"
                    /\ workflowStepInstances[f.instance].retries = k
                    /\ f.wakeAt - f.backoffFrom = ExpectedWait(f.options, k)
              /\ (pc[e] \in {"do_invoke", "do_race"} /\ k > 0) =>
                    /\ workflowStepInstances[f.instance].retries = k
                    /\ f.retryingWrites = k
                    /\ f.lastWait = ExpectedWait(f.options, k)
              /\ (f.exhausted /\ f.options.backoff = "exponential") =>
                    f.waited = parseDuration(f.options.delay).ms
                                  * (2 ^ retryLimit(f.options) - 1)

\* a call with limit 2 and exponential backoff of 1 ms has failed three
\* times, having waited 1 + 2 ms
C11_Witness ==
    \E e \in Execs :
        /\ frame[e].op = "do" /\ frame[e].exhausted
        /\ frame[e].options.backoff = "exponential"
        /\ retryLimit(frame[e].options) = 2
        /\ frame[e].fnCalls = 3
        /\ frame[e].waited = 3

\* max(0, n)
Max0(n) == IF n > 0 THEN n ELSE 0

\* C12: a sleep call that found the SleepInstance of its name open (startedAt
\* t0, duration d) and was entered at t1 waits max(0, (t0 + d) - t1), whatever
\* duration the call was given; no (workflow, name) has two rows; and no
\* row's completedAt is before its startedAt + duration.
C12_SleepResume ==
    /\ \A e \in Execs :
          LET f == frame[e]
              row == workflowSleepInstances[f.instance]
              remaining == Max0((row.startedAt + row.duration) - f.fnTime)
          IN  (f.op = "sleep" /\ f.adopted) =>
                /\ pc[e] = "sleep_wait" => f.wakeAt - f.backoffFrom = remaining
                /\ pc[e] = "sleep_endTx" => f.lastWait = remaining
    /\ \A s, t \in Ids(workflowSleepInstances) :
          (/\ workflowSleepInstances[s].workflowInstanceId =
                 workflowSleepInstances[t].workflowInstanceId
           /\ workflowSleepInstances[s].name = workflowSleepInstances[t].name) => s = t
    /\ \A s \in Ids(workflowSleepInstances) :
          workflowSleepInstances[s].completedAt # NullTime =>
              workflowSleepInstances[s].completedAt >=
                  workflowSleepInstances[s].startedAt + workflowSleepInstances[s].duration

\* a sleep of 2 ms was resumed after 1 ms by a fresh executor with another
\* duration as argument, and has waited the 1 ms that was left
C12_Witness ==
    \E e \in Execs :
        /\ runner[e].mode = "bare"
        /\ frame[e].op = "sleep" /\ frame[e].adopted /\ pc[e] = "sleep_endTx"
        /\ frame[e].ms # workflowSleepInstances[frame[e].instance].duration
        /\ frame[e].fnTime > workflowSleepInstances[frame[e].instance].startedAt
        /\ frame[e].lastWait = 1

\* C13: when run returns (null, workflowId) the row is COMPLETED with the
\* body's return value as output and completedAt set; when it returns
\* (error, null) after the row was created the row is FAILED with a
\* failedReason.
C13_RunResultMatchesRow ==
    [][\A e \in Execs :
          (pc[e] = "run_return" /\ pc'[e] = "returned") =>
              LET row == workflowInstances'[runner[e].workflowId]
              IN  /\ runner[e].result = "ok" =>
                        /\ row.status = "COMPLETED"
                        /\ row.output = runner[e].value
                        /\ row.completedAt # NullTime
                  /\ runner[e].result = "err" =>
                        /\ row.status = "FAILED"
                        /\ row.failedReason # NoError]_vars

\* C14: cancel of an existing workflow is possible in every status; a step
\* that makes a workflow CANCELED writes that row's status and nothing else:
\* no other field or row, no Step, StepInstance or SleepInstance, and no
\* executor's position, locals or caches, so a call in progress goes on from
\* where it was.
C14_CancelOnlyFlag ==
    [][\A w \in Ids(workflowInstances) :
          /\ ENABLED Cancel(w)
          /\ (/\ workflowInstances[w].status # "CANCELED"
              /\ workflowInstances'[w].status = "CANCELED") =>
                /\ workflowInstances' =
                      [workflowInstances EXCEPT ![w].status = "CANCELED"]
                /\ UNCHANGED <<workflowSteps, workflowStepInstances,
                               workflowSleepInstances, pc, step, frame, runner>>]_vars

\* a cancelled workflow's run is about to persist the result of a step
C14_Witness ==
    \E e \in Execs :
        /\ runner[e].mode = "run" /\ pc[e] = "do_completeWrite"
        /\ workflowInstances[runner[e].workflowId].status = "CANCELED"

\* the names of the steps of any workflow that have a COMPLETED instance
CompletedNames ==
    {workflowSteps[workflowStepInstances[i].stepId].name :
        i \in {j \in Ids(workflowStepInstances) :
                  workflowStepInstances[j].status = "COMPLETED"}}

\* C15: once the workflow has COMPLETED steps, calling run for it again
\* creates no second WorkflowInstance row, and the repeated run calls the
\* function of no step that is COMPLETED.
C15_RepeatedRun ==
    [][CompletedNames # {} =>
          /\ Len(workflowInstances') = Len(workflowInstances)
          /\ \A e \in Execs :
                (pc[e] = "do_invoke" /\ pc'[e] = "do_race") =>
                    frame[e].name \notin CompletedNames]_vars

\* C16: in every state no two Step rows have the same (workflow, name); a
\* Step row never changes; and a Step row is created only by an executor in
\* getOrCreateStep, for its own workflow and the name of its call.
C16_UniqueStep ==
    [][/\ \A s, t \in Ids(workflowSteps') :
             workflowSteps'[s] = workflowSteps'[t] => s = t
       /\ \A s \in Ids(workflowSteps) :
             s \in Ids(workflowSteps') /\ workflowSteps'[s] = workflowSteps[s]
       /\ Len(workflowSteps') > Len(workflowSteps) =>
             \E e \in Execs :
                 /\ pc[e] = "do_createStep" /\ pc'[e] # pc[e]
                 /\ workflowSteps' =
                       Append(workflowSteps,
                              StepRow(step[e].workflowInstanceId, frame[e].name))]_vars

\* two executors of one workflow called do with the same name at once: one
\* created the Step, the other's create was refused
C16_Witness ==
    \E e, o \in Execs :
        /\ e # o /\ step[e].workflowInstanceId = step[o].workflowInstanceId
        /\ frame[e].op = "do" /\ frame[e].error = UniqueConstraintMsg
        /\ frame[o].op = "do" /\ frame[o].name = frame[e].name
        /\ step[o].dbStepMap[frame[o].name] # 0

\* C17: on every executor getStateFromStep(N) is what the last do(N, ...) call
\* that returned on it returned (from its function or memoized), and
\* undefined when none has returned.
C17_StepStateAfterDo ==
    \A e \in Execs : \A n \in Names :
        getStateFromStep(e, n) = step[e].doReturned[n]

\* C18: the persisted retries of a StepInstance never decreases, and a do
\* call that adopted an instance with retries = r makes, together with the r
\* failed attempts already recorded, no more than limit + 1 attempts.
C18_RetriesContinue ==
    [][/\ \A i \in Ids(workflowStepInstances) :
             workflowStepInstances'[i].retries >= workflowStepInstances[i].retries
       /\ \A e \in Execs :
             (frame'[e].op = "do" /\ frame'[e].adopted /\ frame'[e].fnCalls > 0) =>
                 frame'[e].adoptedRetries + frame'[e].fnCalls
                     <= retryLimit(frame'[e].options) + 1]_vars

\* C19: while the function of a do call is executing the persisted status of
\* its StepInstance is RUNNING (after a RETRYING write and the backoff it is
\* RUNNING again), and a StepInstance becomes COMPLETED or FAILED only from
\* RUNNING.
C19_StepInstanceStateMachine ==
    [][/\ \A e \in Execs :
             pc'[e] = "do_race" =>
                 workflowStepInstances'[frame'[e].instance].status = "RUNNING"
       /\ \A i \in Ids(workflowStepInstances) :
             (/\ workflowStepInstances'[i].status \in {"COMPLETED", "FAILED"}
              /\ workflowStepInstances'[i].status # workflowStepInstances[i].status) =>
                 workflowStepInstances[i].status = "RUNNING"]_vars

\* the workflow that owns StepInstance i
WorkflowOfInstance(i) ==
    workflowSteps[workflowStepInstances[i].stepId].workflowInstanceId

\* C20: every step of the system that makes a StepInstance FAILED also
\* leaves its workflow FAILED with the step's failure as reason; every step
\* that creates a SleepInstance also leaves its workflow SLEEPING, and a
\* workflow becomes SLEEPING in no other step; every step that sets a
\* SleepInstance's completedAt also leaves its workflow RUNNING.  No state in
\* between exists for another operation or a crash to see.
C20_AtomicPairs ==
    [][/\ \A i \in Ids(workflowStepInstances) :
             (/\ workflowStepInstances[i].status # "FAILED"
              /\ workflowStepInstances'[i].status = "FAILED") =>
                 /\ workflowInstances'[WorkflowOfInstance(i)].status = "FAILED"
                 /\ workflowInstances'[WorkflowOfInstance(i)].failedReason =
                       StepFailedMsg(workflowSteps[workflowStepInstances[i].stepId].name,
                                     workflowStepInstances'[i].failedReason)
       /\ \A s \in Ids(workflowSleepInstances') :
             s \notin Ids(workflowSleepInstances) =>
                 workflowInstances'[workflowSleepInstances'[s].workflowInstanceId].status
                     = "SLEEPING"
       /\ \A w \in Ids(workflowInstances) :
             (/\ workflowInstances[w].status # "SLEEPING"
              /\ workflowInstances'[w].status = "SLEEPING") =>
                 \E s \in Ids(workflowSleepInstances') :
                     /\ s \notin Ids(workflowSleepInstances)
                     /\ workflowSleepInstances'[s].workflowInstanceId = w
       /\ \A s \in Ids(workflowSleepInstances) :
             (/\ workflowSleepInstances[s].completedAt = NullTime
              /\ workflowSleepInstances'[s].completedAt # NullTime) =>
                 workflowInstances'[workflowSleepInstances[s].workflowInstanceId].status
                     = "RUNNING"]_vars

\* a workflow has slept to the end and then had a step exhaust its attempts
C20_Witness ==
    /\ \E s \in Ids(workflowSleepInstances) :
          workflowSleepInstances[s].completedAt # NullTime
    /\ \E i \in Ids(workflowStepInstances) :
          /\ workflowStepInstances[i].status = "FAILED"
          /\ workflowInstances[WorkflowOfInstance(i)].status = "FAILED"

\* C21: a sleep call (with a duration that parses) begun when the
\* SleepInstance of its name had completedAt set never creates a row, sets a
\* timer or opens a transaction; its one step after the lookup is the return
\* to the body, in which no row of the store changes (the SleepInstance and
\* the workflow's status included) and no time passes.
C21_SleepMemoized ==
    [][\A e \in Execs :
          /\ (frame'[e].op = "sleep" /\ frame'[e].entrySlept) =>
                pc'[e] \notin {"sleep_createTx", "sleep_wait", "sleep_endTx"}
          /\ (/\ frame[e].op = "sleep" /\ frame[e].entrySlept
              /\ pc[e] = "sleep_find" /\ pc'[e] \notin {"sleep_find", "idle"}) =>
                /\ pc'[e] = "body"
                /\ frame'[e].outcome = "returned"
                /\ UNCHANGED <<store, now>>]_vars

\* a sleep already completed was called again, on a workflow that is not
\* RUNNING, and has returned
C21_Witness ==
    \E e \in Execs :
        /\ frame[e].op = "sleep" /\ frame[e].entrySlept
        /\ frame[e].outcome = "returned" /\ frame[e].memoized
        /\ workflowInstances[step[e].workflowInstanceId].status = "CANCELED"

\* the arguments a call refuses: a do call without a function; a sleep call
\* whose text is not digits, whitespace and a unit, whose unit is unknown, or
\* whose milliseconds are beyond 2^53 - 1 (104249992 days are the least)
InvalidArguments(f) ==
    \/ f.op = "do" /\ ~f.hasFn
    \/ /\ f.op = "sleep"
       /\ \/ f.duration.value < 0 \/ f.duration.space < 1 \/ f.duration.unit = ""
          \/ toLowerCase(f.duration.unit) \notin DOMAIN units
          \/ toLowerCase(f.duration.unit) \in {"d", "day", "days"}
                /\ f.duration.value >= 104249992

\* the positions of an executor inside a call of do or sleep, each of them
\* before a read or a write of the store or a wait
CallPositions ==
    {"do_getOrCreateStep", "do_createStep", "do_findCompleted",
     "do_findExisting", "do_createInstance", "do_loop", "do_retryWrite",
     "do_backoff", "do_invoke", "do_race", "do_completeWrite", "do_return",
     "do_failedTx", "sleep_find", "sleep_createTx", "sleep_wait", "sleep_endTx"}

\* the message of the error such a call raises
ValidationMessage(f) ==
    IF f.op = "do" THEN MissingExecutorMsg
    ELSE IF f.duration.value < 0 \/ f.duration.space < 1 \/ f.duration.unit = ""
         THEN InvalidDurationMsg(f.duration)
    ELSE IF toLowerCase(f.duration.unit) \notin DOMAIN units
         THEN UnknownUnitMsg(toLowerCase(f.duration.unit))
    ELSE <<"step.sleep", f.name, "duration", ToString(f.duration.value), "x",
           ToString(86400000), "exceeds maximum safe integer">>

SettledNow(e) == step'[e].settledOrphans \ step[e].settledOrphans

\* C23: once the deadline has won the race of an attempt, the settlement of
\* that attempt's function changes neither the store nor the stepState of the
\* executor: a StepInstance becomes COMPLETED only by the write of a call
\* whose function won its race, with the value that function resolved with,
\* and the step in which an orphan settles leaves every row (a FAILED one
\* too) and every cached result as they were
C23_OrphanIgnored ==
    [][\A e \in Execs :
          /\ (step'[e].orphans # step[e].orphans /\ SettledNow(e) # {}) =>
                /\ UNCHANGED <<store, pc, frame, runner>>
                /\ step'[e].stepState = step[e].stepState
          /\ (pc[e] = "do_race" /\ pc'[e] = "do_completeWrite") =>
                /\ frame[e].fn.outcome = "ok"
                /\ frame[e].fn.sync \/ ~frame[e].timedOut
                /\ frame[e].fn.settleAt <= now
                /\ frame'[e].result = frame[e].fn.value
                /\ \A o \in step'[e].orphans \cup step'[e].settledOrphans :
                      ~(o.call = calls /\ o.attempt = frame[e].fnCalls)
          /\ (pc[e] = "do_completeWrite" /\ pc'[e] = "do_completeWrite") =>
                frame'[e].result = frame[e].result
          /\ \A i \in Ids(workflowStepInstances') :
                (/\ frame[e].instance = i
                 /\ workflowStepInstances'[i].status = "COMPLETED"
                 /\ workflowStepInstances[i].status # "COMPLETED") =>
                   /\ pc[e] = "do_completeWrite"
                   /\ workflowStepInstances'[i].output = frame[e].result]_vars

\* the function of an attempt the deadline failed has resolved after its
\* StepInstance was marked FAILED: the row is still FAILED, without output,
\* and nothing is cached for the step
C23_Witness ==
    \E e \in Execs : \E o \in step[e].settledOrphans :
        /\ o.outcome = "ok"
        /\ workflowStepInstances[o.instance].status = "FAILED"
        /\ workflowStepInstances[o.instance].output = Null
        /\ getStateFromStep(e, o.name) = Undefined

\* a do call of executor e is under way
DoRunning(e) == frame[e].op = "do" /\ frame[e].outcome = "running"

\* C24: a do call with a timeout and a finite retry limit L terminates even
\* when its function never settles: a call that is under way comes to return
\* or to raise; it calls the function at most L + 1 times; and in the step
\* that ends it its StepInstance is COMPLETED or FAILED (the COMPLETED one it
\* found, when it returns a memoized output)
C24_DoTerminates ==
    /\ \A e \in TheExec : DoRunning(e) ~> ~DoRunning(e)
    /\ [][\A e \in TheExec :
            /\ DoRunning(e)' => frame'[e].fnCalls <= retryLimit(frame'[e].options) + 1
            /\ (DoRunning(e) /\ ~DoRunning(e)') =>
                  /\ frame'[e].outcome \in {"returned", "raised"}
                  /\ IF frame[e].instance # 0
                     THEN workflowStepInstances'[frame[e].instance].status
                             \in {"COMPLETED", "FAILED"}
                     ELSE \E i \in Ids(workflowStepInstances') :
                             /\ workflowStepInstances'[i].stepId = frame[e].stepId
                             /\ workflowStepInstances'[i].status = "COMPLETED"]_vars

\* a call with limit 2 whose function never settled has raised after three
\* attempts, each lost to the deadline, with its StepInstance FAILED
C24_Witness ==
    \E e \in TheExec :
        /\ frame[e].op = "do" /\ frame[e].outcome = "raised"
        /\ retryLimit(frame[e].options) = 2
        /\ frame[e].fnCalls = 3
        /\ frame[e].error = TimeoutMsg(frame[e].name, frame[e].options.timeout)
        /\ Cardinality({o \in step[e].orphans : o.fn.outcome = "never"}) >= 1
        /\ \E i \in Ids(workflowStepInstances) :
              workflowStepInstances[i].status = "FAILED"

====
